---- MODULE Spec2Model ----
(***************************************************************************)
(* A model of lambda_function.py: the request handler of the serverless    *)
(* chatbot, its module-level answer cache and the Bedrock call.            *)
(*                                                                         *)
(* Text is modelled as a sequence of characters, each character a TLA+     *)
(* string naming it:                                                       *)
(*    "a" "A" "x" "y"   themselves                                         *)
(*    " "               a space                                            *)
(*    "I_dot"           U+0130, capital I with dot above                   *)
(*    "i" "dot"         U+0069 and U+0307 (combining dot above)            *)
(*    "surr"            U+D800, a lone surrogate                           *)
(*    "c1", "c2", ...   distinct caseless non-space characters (for        *)
(*                      example the ideographs U+4E01, U+4E02, ...)        *)
(* Request bodies are the wire strings themselves; json.loads and          *)
(* base64.b64decode are tabulated on them as CPython computes them.        *)
(***************************************************************************)
EXTENDS Integers, Sequences, FiniteSets, TLC

VARIABLES
    MODEL_ID,   \* the configured model identifier (line 27), fixed per process
    _cache,     \* line 51: cache key -> answer
    event,      \* the event of the last invocation
    remote,     \* what bedrock.converse did in the last invocation
    result,     \* what the last invocation returned or raised
    before,     \* history: _cache as the last invocation found it
    known,      \* history: `learned` as the last invocation found it
    learned,    \* history: key -> answer of every miss answered non-empty below the cap
    dropped,    \* history: key -> first answer given at the cap, which was not retained
    pc,         \* concurrent host only: thread -> position in the handler
    held        \* concurrent host only: thread -> the key and answer it carries

vars == <<MODEL_ID, _cache, event, remote, result, before, known, learned, dropped, pc, held>>

\* ------------------------------------------------------------------ bounds

\* Distinct one-character filler prompts c1..cNumFillers available to callers.
NumFillers == 102

\* Threads of the concurrent host.
NumThreads == 2

\* Entries still free in the cache when the concurrent invocations begin.
Headroom == 3

\* MAX_PROMPT_LENGTH (line 31) is read from the environment (default 2000);
\* the modelled deployment configures a limit small enough for prompts on
\* both sides of it to be enumerated.
MAX_PROMPT_LENGTH == 2

\* ------------------------------------------------------ program constants

\* The literal of the capacity check, line 256.
MaxCacheEntries == 100

\* The default model identifier of line 27.
DefaultModelId == "amazon.nova-micro-v1:0"

CORS_HEADERS ==
    [ AllowOrigin  |-> "*",
      AllowHeaders |-> "Content-Type",
      AllowMethods |-> "OPTIONS,POST" ]

\* Python's None, for a key an event does not carry.
NONE == "<None>"

\* ------------------------------------------------------------------- text

IsSpace(c) == c = " "

\* str.lower() on one character; U+0130 lowercases to the two characters i, U+0307.
LowerChar(c) ==
    CASE c = "A"     -> <<"a">>
      [] c = "I_dot" -> <<"i", "dot">>
      [] OTHER       -> <<c>>

RECURSIVE Lower(_)
Lower(s) == IF s = <<>> THEN <<>> ELSE LowerChar(Head(s)) \o Lower(Tail(s))

RECURSIVE LStrip(_)
LStrip(s) == IF s # <<>> /\ IsSpace(Head(s)) THEN LStrip(Tail(s)) ELSE s

RECURSIVE RStrip(_)
RStrip(s) ==
    IF s # <<>> /\ IsSpace(s[Len(s)]) THEN RStrip(SubSeq(s, 1, Len(s) - 1)) ELSE s

\* str.strip()
Strip(s) == RStrip(LStrip(s))

\* str.encode(): UTF-8 cannot encode a lone surrogate.
CanEncode(s) == \A i \in 1..Len(s) : s[i] # "surr"

\* hashlib.md5(...).hexdigest(): a digest determined by the encoded text.
Md5Hex(bytes) == <<"md5">> \o bytes

\* Line 139: prompt.lower().strip()
Normalize(prompt) == Strip(Lower(prompt))

\* A key that ignores case no more: the digest of the trimmed prompt as typed.
_get_cache_key_case_sensitive(prompt) == Md5Hex(Strip(prompt))

\* _get_cache_key, for a prompt that encodes.
_get_cache_key(prompt) == Md5Hex(Normalize(prompt))

\* ------------------------------------------------------- request bodies

\* A parsed JSON value as the handler distinguishes them: its Python type,
\* `num` (an int's value, a bool as 0 or 1, a list's length) and `str`.
Val(type, num, str) == [type |-> type, num |-> num, str |-> str]
PyNone == Val("NoneType", 0, <<>>)
PyInt(n) == Val("int", n, <<>>)
PyBool(b) == Val("bool", IF b THEN 1 ELSE 0, <<>>)
PyList(n) == Val("list", n, <<>>)
PyStr(s) == Val("str", 0, s)

\* Python's truth value of a parsed JSON value.
Truthy(v) ==
    CASE v.type = "NoneType" -> FALSE
      [] v.type = "str"      -> v.str # <<>>
      [] OTHER               -> v.num # 0

\* A parsed document: its Python type and, for a dict, the "prompt" entry.
Doc(type, hasPrompt, prompt) == [type |-> type, hasPrompt |-> hasPrompt, prompt |-> prompt]
DictDoc(v) == Doc("dict", TRUE, v)
EmptyDict == Doc("dict", FALSE, PyNone)
NoDoc == Doc("none", FALSE, PyNone)

\* The body {"prompt": "c<n>"} of a filler prompt.
FillerBody(n) == "{\"prompt\": \"c" \o ToString(n) \o "\"}"
FillerBodies == { FillerBody(n) : n \in 1..NumFillers }
FillerPrompt(n) == << "c" \o ToString(n) >>
FillerDocs == [ x \in FillerBodies |->
                  LET n == CHOOSE n \in 1..NumFillers : x = FillerBody(n)
                  IN  DictDoc(PyStr(FillerPrompt(n))) ]

\* Wire strings that are JSON text, with what json.loads returns for each.
JsonDocs ==
    [ x \in { "{}", "[]", "null", "7",
              "{\"prompt\": null}", "{\"prompt\": 7}", "{\"prompt\": false}",
              "{\"prompt\": [\"a\"]}", "{\"prompt\": \"   \"}",
              "{\"prompt\": \"a\"}", "{\"prompt\": \" A \"}",
              "{\"prompt\": \"\\u0130\\u0130\"}",
              "{\"prompt\": \"i\\u0307i\\u0307\"}",
              "{\"prompt\": \"\\ud800\"}" } |->
      CASE x = "{}"                 -> EmptyDict
        [] x = "[]"                 -> Doc("list", FALSE, PyNone)
        [] x = "null"               -> Doc("NoneType", FALSE, PyNone)
        [] x = "7"                  -> Doc("int", FALSE, PyNone)
        [] x = "{\"prompt\": null}" -> DictDoc(PyNone)
        [] x = "{\"prompt\": 7}"    -> DictDoc(PyInt(7))
        [] x = "{\"prompt\": false}" -> DictDoc(PyBool(FALSE))
        [] x = "{\"prompt\": [\"a\"]}" -> DictDoc(PyList(1))
        [] x = "{\"prompt\": \"   \"}" -> DictDoc(PyStr(<<" ", " ", " ">>))
        [] x = "{\"prompt\": \"a\"}" -> DictDoc(PyStr(<<"a">>))
        [] x = "{\"prompt\": \" A \"}" -> DictDoc(PyStr(<<" ", "A", " ">>))
        [] x = "{\"prompt\": \"\\u0130\\u0130\"}" -> DictDoc(PyStr(<<"I_dot", "I_dot">>))
        [] x = "{\"prompt\": \"i\\u0307i\\u0307\"}" -> DictDoc(PyStr(<<"i", "dot", "i", "dot">>))
        [] x = "{\"prompt\": \"\\ud800\"}" -> DictDoc(PyStr(<<"surr">>)) ]

\* json.loads(raw): ok = FALSE stands for json.JSONDecodeError.
JsonLoads(raw) ==
    IF raw \in DOMAIN JsonDocs THEN [ok |-> TRUE, doc |-> JsonDocs[raw]]
    ELSE IF raw \in FillerBodies
         THEN [ok |-> TRUE, doc |-> FillerDocs[raw]]
         ELSE [ok |-> FALSE, doc |-> NoDoc]

\* Wire strings that are the base64 of UTF-8 text, with that text.
Base64Texts ==
    [ x \in { "e30=", "W10=", "bm90IGpzb24=", "eyJwcm9tcHQiOiAiYSJ9",
              "eyJwcm9tcHQiOiAiIEEgIn0=" } |->
      CASE x = "e30="                     -> "{}"
        [] x = "W10="                     -> "[]"
        [] x = "bm90IGpzb24="             -> "not json"
        [] x = "eyJwcm9tcHQiOiAiYSJ9"     -> "{\"prompt\": \"a\"}"
        [] x = "eyJwcm9tcHQiOiAiIEEgIn0=" -> "{\"prompt\": \" A \"}" ]

\* base64.b64decode(raw).decode("utf-8") of line 118.  b64decode drops the
\* characters outside the base64 alphabet, so "{}" and "[]" decode to no bytes;
\* what is left of the other JSON texts has a wrong length or padding
\* (binascii.Error), except that "null", "/w==" and the U+0130 body decode to
\* bytes that are not UTF-8 (UnicodeDecodeError).
B64DecodeText(raw) ==
    CASE raw \in DOMAIN Base64Texts -> [err |-> "", text |-> Base64Texts[raw]]
      [] raw \in {"{}", "[]"}       -> [err |-> "", text |-> ""]
      [] raw \in {"null", "/w==", "{\"prompt\": \"\\u0130\\u0130\"}"}
                                    -> [err |-> "UnicodeDecodeError", text |-> ""]
      [] OTHER                      -> [err |-> "binascii.Error", text |-> ""]

\* Bodies a caller sends without the base64 flag in mind, and with it.
PlainBodies == DOMAIN JsonDocs \cup {NONE, "", "not json"}
Base64Bodies == DOMAIN Base64Texts \cup {"/w=="}

\* An API Gateway event: the HTTP API method (requestContext.http.method), the
\* REST API method (httpMethod), the body and the base64 flag.
Event(http, rest, body, b64) ==
    [http_method |-> http, httpMethod |-> rest, body |-> body, isBase64Encoded |-> b64]
NoEvent == Event(NONE, NONE, NONE, FALSE)

\* The two event shapes, and an event that carries no method.
MethodShapes ==
    { <<"OPTIONS", NONE>>, <<NONE, "OPTIONS">>, <<"POST", NONE>>, <<NONE, "POST">>,
      <<NONE, NONE>> }

Events ==
    { Event(m[1], m[2], b, f) :
        m \in MethodShapes, b \in PlainBodies \cup Base64Bodies, f \in BOOLEAN }

\* x or y, on strings that may be None.
StrOr(x, y) == IF x = NONE \/ x = "" THEN y ELSE x

\* A method read from the REST API shape alone.
_get_http_method_rest_only(ev) == StrOr(ev.httpMethod, "")

\* _get_http_method
_get_http_method(ev) == StrOr(StrOr(ev.http_method, ev.httpMethod), "")

\* _parse_body: the parsed document, or the exception that leaves it.
_parse_body(ev) ==
    LET raw == StrOr(ev.body, "{}")
        dec == IF ev.isBase64Encoded THEN B64DecodeText(raw) ELSE [err |-> "", text |-> raw]
        js  == JsonLoads(dec.text)
    IN  IF dec.err # "" THEN [raised |-> dec.err, doc |-> NoDoc]
        ELSE IF ~js.ok THEN [raised |-> "JSONDecodeError", doc |-> NoDoc]
        ELSE [raised |-> "", doc |-> js.doc]

\* -------------------------------------------------------------- responses

\* json.dumps of a one-entry dict whose value is the text `value`.
JsonDumps(field, value) == << "{\"" \o field \o "\": \"" >> \o value \o << "\"}" >>

NoHeaders == [AllowOrigin |-> "", AllowHeaders |-> "", AllowMethods |-> ""]

\* What an invocation hands back: a response, or the exception that escapes it.
Return(status, headers, body) ==
    [raised |-> "", statusCode |-> status, headers |-> headers, body |-> body]
Raise(exc) == [raised |-> exc, statusCode |-> 0, headers |-> NoHeaders, body |-> <<>>]
NoResult == Return(0, NoHeaders, <<>>)

\* _resp
_resp(status, field, value) == Return(status, CORS_HEADERS, JsonDumps(field, value))
ErrorResp(status, message) == _resp(status, "error", <<message>>)

\* ----------------------------------------------------- the remote capability

\* What bedrock.converse and the extraction of line 250 can do: a generated
\* text, a response without output.message.content[0].text, a ClientError with
\* its code, or any other exception (a timeout, a connection error).
Outcome(kind, text, code) == [kind |-> kind, text |-> text, code |-> code]
NotCalled == Outcome("NotCalled", <<>>, "")
Generated(text) == Outcome("ok", text, "")
ClientError(code) == Outcome("ClientError", <<>>, code)

Answers == { <<"x">>, <<"y">>, <<>> }
ErrorCodes == { "ThrottlingException", "ValidationException", "AccessDeniedException" }

Outcomes ==
    { Generated(t) : t \in Answers } \cup { ClientError(c) : c \in ErrorCodes }
        \cup { Outcome("malformed", <<>>, ""), Outcome("other", <<>>, "") }

\* ------------------------------------------------------------ the handler

\* Lines 163-204: everything up to the cache lookup.  done = FALSE is a cache
\* miss, with the trimmed prompt and its cache key.
Finished(r) == [done |-> TRUE, result |-> r, prompt |-> <<>>, key |-> <<>>]
Miss(prompt, key) == [done |-> FALSE, result |-> NoResult, prompt |-> prompt, key |-> key]

Lookup(c, prompt) ==
    IF ~CanEncode(Normalize(prompt)) THEN Finished(Raise("UnicodeEncodeError"))
    ELSE LET cache_key == _get_cache_key(prompt)
         IN  IF cache_key \in DOMAIN c
             THEN Finished(_resp(200, "answer", c[cache_key]))
             ELSE Miss(prompt, cache_key)

Validate(c, doc) ==
    IF doc.type # "dict" THEN Finished(Raise("AttributeError"))
    ELSE LET got == IF doc.hasPrompt THEN doc.prompt ELSE PyNone
             val == IF Truthy(got) THEN got ELSE PyStr(<<>>)
         IN  IF val.type # "str" THEN Finished(Raise("AttributeError"))
             ELSE LET prompt == Strip(val.str)
                  IN  IF prompt = <<>>
                      THEN Finished(ErrorResp(400, "Missing 'prompt' in request body"))
                      ELSE IF Len(prompt) > MAX_PROMPT_LENGTH
                      THEN Finished(_resp(400, "error",
                               << "Prompt exceeds ", ToString(MAX_PROMPT_LENGTH), " characters" >>))
                      ELSE Lookup(c, prompt)

Front(ev, modelId, c) ==
    IF _get_http_method(ev) = "OPTIONS" THEN Finished(Return(204, CORS_HEADERS, <<>>))
    ELSE IF modelId = "" THEN Finished(ErrorResp(500, "Service misconfigured"))
    ELSE LET parsed == _parse_body(ev)
         IN  IF parsed.raised = "JSONDecodeError"
             THEN Finished(ErrorResp(400, "Body must be valid JSON"))
             ELSE IF parsed.raised # "" THEN Finished(Raise(parsed.raised))
             ELSE Validate(c, parsed.doc)

\* A capacity check that is off by one.
CapacityOkOffByOne(c, answer) == answer # <<>> /\ Cardinality(DOMAIN c) <= MaxCacheEntries

\* A store condition without the capacity check.
CapacityOkUnbounded(c, answer) == answer # <<>>

\* Line 256: the condition under which an answer is stored.
CapacityOk(c, answer) == answer # <<>> /\ Cardinality(DOMAIN c) < MaxCacheEntries

\* Line 257: _cache[cache_key] = answer
Insert(c, key, answer) == [k \in DOMAIN c \cup {key} |-> IF k = key THEN answer ELSE c[k]]

\* A store that runs whatever the remote call did.
StoreAnyOutcome(c, key, out) ==
    IF Cardinality(DOMAIN c) < MaxCacheEntries THEN Insert(c, key, out.text) ELSE c

\* A store that makes room at the cap by evicting an entry.
StoreEvicting(c, key, out) ==
    IF out.kind # "ok" \/ out.text = <<>> THEN c
    ELSE IF Cardinality(DOMAIN c) < MaxCacheEntries THEN Insert(c, key, out.text)
    ELSE LET victim == CHOOSE k \in DOMAIN c : TRUE
             kept == [k \in DOMAIN c \ {victim} |-> c[k]]
         IN  Insert(kept, key, out.text)

\* Lines 252-257, reached only when the remote call and the extraction succeed.
Store(c, key, out) ==
    IF out.kind = "ok" /\ CapacityOk(c, out.text) THEN Insert(c, key, out.text) ELSE c

\* An error response that names the remote's error code.
ClientErrorRespLeaky(code) ==
    IF code = "ThrottlingException"
    THEN ErrorResp(429, "Rate limit exceeded")
    ELSE _resp(500, "error", <<"Model invocation failed: ", code>>)

\* Lines 263-276: the response to a ClientError.
ClientErrorResp(code) ==
    IF code = "ThrottlingException"
    THEN ErrorResp(429, "Rate limit exceeded")
    ELSE ErrorResp(500, "Model invocation failed")

\* Lines 248-283: the response after the remote call.
Back(out) ==
    CASE out.kind = "ok"          -> _resp(200, "answer", out.text)
      [] out.kind = "ClientError" -> ClientErrorResp(out.code)
      [] OTHER                    -> ErrorResp(500, "Internal server error")

\* ---------------------------------------------------------------- history

\* The miss of claim C3: answered non-empty with the cache below its maximum.
Learn(l, c, f, out) ==
    IF ~f.done /\ out.kind = "ok" /\ out.text # <<>>
       /\ Cardinality(DOMAIN c) < MaxCacheEntries
       /\ Md5Hex(Normalize(f.prompt)) \notin DOMAIN l
    THEN LET key == Md5Hex(Normalize(f.prompt))
         IN  [k \in DOMAIN l \cup {key} |-> IF k = key THEN out.text ELSE l[k]]
    ELSE l

\* The miss of claim C4: answered with the cache at its maximum.
Drop(d, c, f, out) ==
    IF ~f.done /\ out.kind = "ok" /\ Cardinality(DOMAIN c) >= MaxCacheEntries
       /\ Md5Hex(Normalize(f.prompt)) \notin DOMAIN d
    THEN LET key == Md5Hex(Normalize(f.prompt))
         IN  [k \in DOMAIN d \cup {key} |-> IF k = key THEN out.text ELSE d[k]]
    ELSE d

\* ------------------------------------------------- one invocation at a time

Threads == 1..NumThreads
NoHeld == [key |-> <<>>, answer |-> <<>>]

Init ==
    /\ MODEL_ID \in {"", DefaultModelId}
    /\ _cache = << >>
    /\ event = NoEvent
    /\ remote = NotCalled
    /\ result = NoResult
    /\ before = << >>
    /\ known = << >>
    /\ learned = << >>
    /\ dropped = << >>
    /\ pc = [t \in Threads |-> "idle"]
    /\ held = [t \in Threads |-> NoHeld]

\* lambda_handler(ev, context): `f` is what lines 163-204 make of the event and
\* `out` what the remote capability does if it is called.
Invoke(ev, f, out) ==
    /\ event' = ev
    /\ before' = _cache
    /\ known' = learned
    /\ remote' = IF f.done THEN NotCalled ELSE out
    /\ result' = IF f.done THEN f.result ELSE Back(out)
    /\ _cache' = IF f.done THEN _cache ELSE Store(_cache, f.key, out)
    /\ learned' = Learn(learned, _cache, f, out)
    /\ dropped' = Drop(dropped, _cache, f, out)
    /\ UNCHANGED <<MODEL_ID, pc, held>>

lambda_handler(ev, outs) ==
    \E f \in {Front(ev, MODEL_ID, _cache)} :
        IF f.done THEN Invoke(ev, f, NotCalled)
        ELSE \E out \in outs : Invoke(ev, f, out)

\* Any event, any remote outcome.
Next == \E ev \in Events : lambda_handler(ev, Outcomes)

Spec == Init /\ [][Next]_vars

\* --------------------------------------------- a long-lived warm container

\* A REST API POST of {"prompt": ...}.
Post(body) == Event(NONE, "POST", body, FALSE)

FillerKeys == [ n \in 1..NumFillers |-> _get_cache_key(FillerPrompt(n)) ]
FillerOfKey == [ k \in { FillerKeys[n] : n \in 1..NumFillers } |->
                   CHOOSE n \in 1..NumFillers : FillerKeys[n] = k ]
CachedFillers(c) == { FillerOfKey[k] : k \in DOMAIN c \cap DOMAIN FillerOfKey }
FreshFillers(c) == (1..NumFillers) \ CachedFillers(c)

\* The filler prompts differ only in name, and the remote answers each of them
\* "x" or fails: of the fillers not yet cached one stands for all, and so does
\* one of those cached.
Lowest(S) == CHOOSE n \in S : \A m \in S : n <= m
FillerChoices(c) ==
    (IF FreshFillers(c) = {} THEN {} ELSE {Lowest(FreshFillers(c))})
        \cup (IF CachedFillers(c) = {} THEN {} ELSE {Lowest(CachedFillers(c))})

WarmBodies ==
    { "{\"prompt\": \"a\"}", "{\"prompt\": \" A \"}",
      "{\"prompt\": \"\\u0130\\u0130\"}", "{\"prompt\": \"i\\u0307i\\u0307\"}",
      "{\"prompt\": \"   \"}" }

WarmEvents(c) ==
    { Post(b) : b \in WarmBodies } \cup { Post(FillerBody(n)) : n \in FillerChoices(c) }
        \cup { Event("OPTIONS", NONE, "{\"prompt\": \"a\"}", FALSE) }

WarmOutcomes(ev) ==
    IF ev.body \in FillerBodies
    THEN { Generated(<<"x">>), ClientError("ThrottlingException") }
    ELSE Outcomes

NextWarm == \E ev \in WarmEvents(_cache) : lambda_handler(ev, WarmOutcomes(ev))

SpecWarm == Init /\ [][NextWarm]_vars

\* ------------------------------------------------------ a concurrent host

\* Several invocations share one execution context.  Each thread runs the
\* handler; the steps that read or write _cache are the lookup of line 200, the
\* capacity check of line 256 and the insert of line 257, and the remote call
\* lies between the first two.  The response a thread returns is the one of
\* Front or Back and touches nothing shared.

Hold(key, answer) == [key |-> key, answer |-> answer]
HeldFillers ==
    { FillerOfKey[k] : k \in { held[t].key : t \in Threads } \cap DOMAIN FillerOfKey }

\* Of the fillers neither cached nor in flight one stands for all.
ConcFillers ==
    LET cached == CachedFillers(_cache)
        fresh  == ((1..NumFillers) \ cached) \ HeldFillers
    IN  (IF fresh = {} THEN {} ELSE {Lowest(fresh)})
            \cup HeldFillers
            \cup (IF cached = {} THEN {} ELSE {Lowest(cached)})

\* Lines 163-204 in thread t.
Begin(t, ev) ==
    /\ pc[t] = "idle"
    /\ \E f \in {Front(ev, MODEL_ID, _cache)} :
          IF f.done
          THEN UNCHANGED <<pc, held>>
          ELSE /\ pc' = [pc EXCEPT ![t] = "converse"]
               /\ held' = [held EXCEPT ![t] = Hold(f.key, <<>>)]
    /\ UNCHANGED <<MODEL_ID, _cache, event, remote, result, before, known, learned, dropped>>

\* Lines 221-250 in thread t: the remote call returns.
Converse(t, out) ==
    /\ pc[t] = "converse"
    /\ IF out.kind = "ok"
       THEN /\ pc' = [pc EXCEPT ![t] = "check"]
            /\ held' = [held EXCEPT ![t] = Hold(held[t].key, out.text)]
       ELSE /\ pc' = [pc EXCEPT ![t] = "idle"]
            /\ held' = [held EXCEPT ![t] = NoHeld]
    /\ UNCHANGED <<MODEL_ID, _cache, event, remote, result, before, known, learned, dropped>>

\* Line 256 in thread t.
Check(t) ==
    /\ pc[t] = "check"
    /\ IF CapacityOk(_cache, held[t].answer)
       THEN /\ pc' = [pc EXCEPT ![t] = "insert"]
            /\ UNCHANGED held
       ELSE /\ pc' = [pc EXCEPT ![t] = "idle"]
            /\ held' = [held EXCEPT ![t] = NoHeld]
    /\ UNCHANGED <<MODEL_ID, _cache, event, remote, result, before, known, learned, dropped>>

\* Line 257 in thread t, and the return of line 260.
InsertStep(t) ==
    /\ pc[t] = "insert"
    /\ _cache' = Insert(_cache, held[t].key, held[t].answer)
    /\ pc' = [pc EXCEPT ![t] = "idle"]
    /\ held' = [held EXCEPT ![t] = NoHeld]
    /\ UNCHANGED <<MODEL_ID, event, remote, result, before, known, learned, dropped>>

\* The context has served MaxCacheEntries - Headroom distinct filler prompts,
\* one at a time, before the concurrent invocations begin.
WarmCache ==
    [ k \in { FillerKeys[n] : n \in 1..(MaxCacheEntries - Headroom) } |-> <<"x">> ]

InitConc ==
    /\ MODEL_ID = DefaultModelId
    /\ _cache = WarmCache
    /\ event = NoEvent
    /\ remote = NotCalled
    /\ result = NoResult
    /\ before = WarmCache
    /\ known = WarmCache
    /\ learned = WarmCache
    /\ dropped = << >>
    /\ pc = [t \in Threads |-> "idle"]
    /\ held = [t \in Threads |-> NoHeld]

NextConc ==
    \E t \in Threads :
        \/ \E prompts \in {ConcFillers} : \E n \in prompts : Begin(t, Post(FillerBody(n)))
        \/ \E out \in { Generated(<<"x">>), ClientError("ThrottlingException") } :
              Converse(t, out)
        \/ Check(t)
        \/ InsertStep(t)

SpecConc == InitConc /\ [][NextConc]_vars

\* ----------------------------------------------------------------- claims

Done == result # NoResult
Size(c) == Cardinality(DOMAIN c)
Preflight(ev) == ev.http_method = "OPTIONS" \/ ev.httpMethod = "OPTIONS"
Configured == MODEL_ID # ""

\* The prompt text an event carries in its body, if it carries one.
CarriesPrompt(ev) ==
    LET parsed == _parse_body(ev)
    IN  /\ parsed.raised = ""
        /\ parsed.doc.type = "dict"
        /\ parsed.doc.hasPrompt
        /\ parsed.doc.prompt.type = "str"
PromptText(ev) == _parse_body(ev).doc.prompt.str
NormalKey(ev) == Md5Hex(Normalize(PromptText(ev)))
WithinLimit(ev) == Len(Strip(PromptText(ev))) <= MAX_PROMPT_LENGTH
ValidPrompt(ev) ==
    /\ ~Preflight(ev)
    /\ CarriesPrompt(ev)
    /\ Strip(PromptText(ev)) # <<>>
    /\ WithinLimit(ev)
    /\ CanEncode(PromptText(ev))

WellFormed(r) ==
    /\ r.raised = ""
    /\ r.statusCode \in {200, 204, 400, 429, 500}
    /\ r.headers = CORS_HEADERS
    /\ \/ r.statusCode = 204 /\ r.body = <<>>
       \/ \E field \in {"answer", "error"} :
             /\ Len(r.body) >= 2
             /\ r.body = JsonDumps(field, SubSeq(r.body, 2, Len(r.body) - 1))

\* C1: whatever the event and the remote outcome, lambda_handler lets no
\* exception escape and returns a well-formed response.
C1_NoExceptionEscapes == Done => WellFormed(result)

\* C2: with invocations one at a time from an empty cache, the cache never
\* holds more than 100 entries, and an invocation that finds 100 entries
\* inserts none.
C2_CacheBounded ==
    /\ Size(_cache) <= MaxCacheEntries
    /\ Size(before) = MaxCacheEntries => _cache = before

C2_Witness ==
    /\ Size(before) = MaxCacheEntries
    /\ Size(_cache) = MaxCacheEntries
    /\ remote.kind = "ok" /\ remote.text # <<>>
    /\ result.statusCode = 200

\* C3 as stated: once a miss on prompt P was answered A (non-empty, cache below
\* its maximum), every later non-preflight invocation whose prompt normalizes
\* to the same text returns 200 with A and does not invoke the remote.
C3_Original ==
    (Done /\ ~Preflight(event) /\ CarriesPrompt(event) /\ NormalKey(event) \in DOMAIN known)
        => /\ result = _resp(200, "answer", known[NormalKey(event)])
           /\ remote = NotCalled

\* C3 as amended: the same, for the later invocations that are not preflight
\* requests and whose own trimmed prompt is at most MAX_PROMPT_LENGTH
\* characters long (lowercasing can lengthen a prompt, so two prompts with the
\* same normal form can differ in length).
C3_CachedAnswerReturned ==
    (Done /\ ~Preflight(event) /\ CarriesPrompt(event) /\ WithinLimit(event)
          /\ NormalKey(event) \in DOMAIN known)
        => /\ result = _resp(200, "answer", known[NormalKey(event)])
           /\ remote = NotCalled

C3_Witness ==
    /\ event = Post("{\"prompt\": \" A \"}")
    /\ Md5Hex(<<"a">>) \in DOMAIN known
    /\ Size(before) >= 3
    /\ result = _resp(200, "answer", <<"y">>)
    /\ remote = NotCalled

\* C4: with the cache at 100 entries, an invocation with a valid prompt whose
\* key is not cached calls the remote, returns 200 with the remote's answer and
\* leaves the cache as it was; a later invocation with a prompt of the same key
\* calls the remote again.
C4_AtCapacity ==
    /\ (Done /\ Configured /\ ValidPrompt(event) /\ Size(before) = MaxCacheEntries
             /\ NormalKey(event) \notin DOMAIN before)
          => /\ remote # NotCalled
             /\ _cache = before
             /\ remote.kind = "ok" => result = _resp(200, "answer", remote.text)
    /\ (Done /\ ValidPrompt(event) /\ NormalKey(event) \in DOMAIN dropped)
          => remote # NotCalled

C4_Witness ==
    /\ ValidPrompt(event)
    /\ Size(before) = MaxCacheEntries
    /\ NormalKey(event) \in DOMAIN dropped
    /\ dropped[NormalKey(event)] = <<"x">>
    /\ remote = Generated(<<"y">>)
    /\ result = _resp(200, "answer", <<"y">>)
    /\ _cache = before

\* C5: a request whose method is OPTIONS, in either event shape, gets 204 with
\* an empty body and the cross-origin headers, whatever its body, the model
\* identifier and the cache; the remote is not called and the cache is left
\* alone.
C5_Preflight ==
    (Done /\ Preflight(event))
        => /\ result = Return(204, CORS_HEADERS, <<>>)
           /\ remote = NotCalled
           /\ _cache = before

C5_Witness ==
    /\ event = Event("OPTIONS", NONE, "not json", TRUE)
    /\ before # << >>
    /\ result.statusCode = 204

\* C6: a ClientError from the remote call yields 429 "Rate limit exceeded"
\* exactly when its code is ThrottlingException, and otherwise 500 "Model
\* invocation failed"; the code is nowhere in the response body.
C6_ClientErrorMapping ==
    remote.kind = "ClientError"
        => /\ (result = ErrorResp(429, "Rate limit exceeded"))
                 <=> (remote.code = "ThrottlingException")
           /\ remote.code # "ThrottlingException"
                 => result = ErrorResp(500, "Model invocation failed")
           /\ \A i \in 1..Len(result.body) : result.body[i] # remote.code

C6_Witness ==
    /\ remote = ClientError("ThrottlingException")
    /\ result.statusCode = 429

\* C7: a non-preflight request to a configured service whose body cannot be
\* parsed as JSON (a failing base64 or text decoding included) gets 400 "Body
\* must be valid JSON".
C7_UnparsableBody ==
    (Done /\ ~Preflight(event) /\ Configured /\ _parse_body(event).raised # "")
        => result = ErrorResp(400, "Body must be valid JSON")

\* C8: a non-preflight request to a configured service whose body is
\* well-formed JSON without a usable prompt (no "prompt" key, or a prompt that
\* is null, empty or only whitespace) gets 400 "Missing 'prompt' in request
\* body", with no remote call and no cache change.
NoUsablePrompt(doc) ==
    \/ ~doc.hasPrompt
    \/ doc.prompt.type = "NoneType"
    \/ doc.prompt.type = "str" /\ Strip(doc.prompt.str) = <<>>

C8_MissingPrompt ==
    (Done /\ ~Preflight(event) /\ Configured /\ _parse_body(event).raised = ""
          /\ NoUsablePrompt(_parse_body(event).doc))
        => /\ result = ErrorResp(400, "Missing 'prompt' in request body")
           /\ remote = NotCalled
           /\ _cache = before

\* C9: only a miss answered by the remote changes the cache: an invocation
\* that ends with a status other than 200, or that is answered from the cache,
\* leaves the cache as it was.
C9_CacheFrame ==
    /\ (Done /\ (result.statusCode # 200 \/ remote = NotCalled)) => _cache = before
    /\ _cache # before => (remote.kind = "ok" /\ result.statusCode = 200)

C9_Witness ==
    /\ result.statusCode = 429
    /\ before # << >>
    /\ _cache = before

====
